---- MODULE Spec2Model ----
(***************************************************************************)
(* Model of the Q2 training dashboard (src/dashboard.py) and of the static *)
(* report generator (src/report_generator.py).                             *)
(*                                                                         *)
(* Floats are records: Num(v) holds the value v in thousandths, NaN is the *)
(* missing marker of pandas, Inf is the result of x / 0 for x > 0.         *)
(* Strings that are parsed are sequences of one-character strings.         *)
(***************************************************************************)
EXTENDS Integers, Sequences, FiniteSets, TLC

VARIABLES
    pc,                 \* position of the running script / function
    series,             \* argument of _to_number_percent_aware
    nums,               \* its return value
    nums_again,         \* its return value when it is given nums
    trainee_df,         \* dashboard: the 'trainne' sheet, with derived columns
    score_series,       \* dashboard: normalized 'Score' column
    alt_final_series,   \* dashboard: normalized alternate final-exam column
    threshold,          \* dashboard: minimum population of 'Score'
    final_source_used,  \* dashboard: provenance label of the final score
    program_exam_data,  \* dashboard: per-program success rates
    shown,              \* dashboard: what the page has displayed so far
    workbook,           \* the Excel file the run reads (environment)
    radio,              \* dashboard: the view the user has picked (environment)
    uploaded_file,      \* dashboard: whether a file was uploaded (environment)
    default_exists,     \* dashboard: whether the bundled file exists (environment)
    file_to_use,        \* dashboard: which file is loaded
    plan_df,            \* dashboard: the 'plan' sheet
    sheet_view,         \* dashboard: the view being rendered
    enrollment_rate,    \* dashboard: Comparative Analysis enrollment rate
    comparison,         \* dashboard: program-wise reconciliation
    gov_comparison,     \* dashboard: governorate-wise reconciliation (targets)
    courses_gov_comp,   \* dashboard: governorate-wise reconciliation (courses)
    programs_df,        \* report: sheet of planned courses
    trainees_df,        \* report: sheet of trainees
    registration_df,    \* report: sheet of registrations
    html,               \* report: what build_report computed and wrote
    pdf,                \* report: what build_pdf computed and wrote
    success_rate,       \* dashboard: Overview overall success rate
    failure_rate,       \* dashboard: Overview overall failure rate
    gov_performance,    \* dashboard: Overview success rate per governorate
    program_performance, \* dashboard: Overview success rate per program
    selected_course,    \* dashboard: programs picked in the course filter
    selected_gov_trainee, \* dashboard: governorates picked in the filter
    attendance_filter,  \* dashboard: minimum attendance of the slider
    filtered_trainee,   \* dashboard: the filtered trainee rows
    on_full,            \* the normalizer and the rates applied to all rows
    on_subset           \* the same applied to the filtered rows only

normVars == <<series, nums, nums_again>>
examVars == <<trainee_df, score_series, alt_final_series, threshold,
              final_source_used, program_exam_data>>
envVars == <<workbook, radio, uploaded_file, default_exists>>
dashVars == <<file_to_use, plan_df, sheet_view>>
cmpVars == <<enrollment_rate, comparison, gov_comparison, courses_gov_comp>>
reportVars == <<programs_df, trainees_df, registration_df, html, pdf>>
overviewVars == <<success_rate, failure_rate, gov_performance, program_performance>>
filterVars == <<selected_course, selected_gov_trainee, attendance_filter,
                filtered_trainee>>
coreVars == <<on_full, on_subset>>
viewVars == <<overviewVars, filterVars, coreVars>>
vars == <<pc, normVars, examVars, shown, envVars, dashVars, cmpVars, reportVars,
          viewVars>>

\* ------------------------------------------------------------------ bounds
MaxLen == 5             \* longest column given to the normalizer
MaxRows == 4            \* most rows of a table with arbitrary cells
MaxRowCount == 200      \* most rows of a table with uniform cells
MaxScored == 7          \* most 'Score' cells filled in such a table
MaxAlt == 40            \* most alternate final-exam cells filled in it
MaxSheetRows == 2       \* most rows of a sheet that is reconciled
MaxCourses == 4         \* most courses of the one planned program of a big report
MaxRegistered == 50     \* registrations of that program in a big report
MaxOther == 10          \* registrations of an unplanned program in a big report
MaxPrograms == 16       \* most programs of a plan that is reconciled

\* ------------------------------------------------------------------ floats
NaN == [k |-> "nan", v |-> 0]
Inf == [k |-> "inf", v |-> 0]
Num(x) == [k |-> "num", v |-> x]
IsNum(f) == f.k = "num"
notna(f) == f.k # "nan"

\* an unrounded float: the exact quotient num / den (den > 0), or the NaN
\* or inf a division by zero gives
Frac(num, den) == [k |-> "num", num |-> num, den |-> den]
FracNaN == [k |-> "nan", num |-> 0, den |-> 1]
FracInf == [k |-> "inf", num |-> 0, den |-> 1]

\* float * 100 (nan and inf propagate)
Times100(f) == IF IsNum(f) THEN Num(f.v * 100) ELSE f

\* Series.between(0, 1): inclusive on both ends, False for NaN and inf
between01(f) == IsNum(f) /\ 0 <= f.v /\ f.v <= 1000

\* ------------------------------------------------------------------ cells
\* A missing cell (None / NaN / empty Excel cell).
Missing == <<"<missing>">>
\* A column argument: Column(cells) for a column of the table, None for
\* DataFrame.get() of a column that does not exist.
Column(cells) == [present |-> TRUE, cells |-> cells]
None == [present |-> FALSE, cells |-> <<>>]

Digits == <<"0", "1", "2", "3", "4", "5", "6", "7", "8", "9">>
IsDigit(c) == \E i \in 1..10 : Digits[i] = c
DigitVal(c) == (CHOOSE i \in 1..10 : Digits[i] = c) - 1

\* astype(str): a missing cell becomes the text "nan", text stays text
astype_str(cell) == IF cell = Missing THEN <<"n", "a", "n">> ELSE cell

RECURSIVE lstrip(_)
lstrip(s) == IF s # <<>> /\ Head(s) = " " THEN lstrip(Tail(s)) ELSE s
RECURSIVE rstrip(_)
rstrip(s) ==
    IF s # <<>> /\ s[Len(s)] = " " THEN rstrip(SubSeq(s, 1, Len(s) - 1)) ELSE s
\* str.strip()
strip(s) == rstrip(lstrip(s))

\* str.replace(old, new, regex=False) for a one-character old; new is a
\* sequence of characters (empty to delete); every occurrence is replaced
RECURSIVE str_replace(_, _, _)
str_replace(s, old, new) ==
    IF s = <<>> THEN <<>>
    ELSE (IF Head(s) = old THEN new ELSE <<Head(s)>>)
         \o str_replace(Tail(s), old, new)

\* value of a digit string as an integer
RECURSIVE DigitsValue(_)
DigitsValue(s) ==
    IF s = <<>> THEN 0
    ELSE DigitsValue(SubSeq(s, 1, Len(s) - 1)) * 10 + DigitVal(s[Len(s)])

\* fractional digits as thousandths (digits beyond the third are dropped)
FracValue(s) ==
    LET d(i) == IF i <= Len(s) THEN DigitVal(s[i]) ELSE 0
    IN  d(1) * 100 + d(2) * 10 + d(3)

\* a parser that turns a text it cannot parse into 0 instead of NaN
to_numeric_zero(s) ==
    LET neg  == s # <<>> /\ Head(s) = "-"
        body == IF neg THEN Tail(s) ELSE s
        ok   == /\ body # <<>>
                /\ \A i \in 1..Len(body) : IsDigit(body[i])
    IN  IF ~ok THEN Num(0)
        ELSE Num((IF neg THEN 0 - 1 ELSE 1) * DigitsValue(body) * 1000)

\* pd.to_numeric(..., errors='coerce') of one text: an optional sign, digits
\* with at most one decimal point; anything else is coerced to NaN
to_numeric_coerce(s) ==
    LET neg  == s # <<>> /\ Head(s) = "-"
        body == IF neg THEN Tail(s) ELSE s
        dots == {i \in 1..Len(body) : body[i] = "."}
        ok   == /\ Cardinality(dots) <= 1
                /\ \A i \in 1..Len(body) : i \in dots \/ IsDigit(body[i])
                /\ \E i \in 1..Len(body) : IsDigit(body[i])
        dot  == IF dots = {} THEN Len(body) + 1 ELSE CHOOSE i \in dots : TRUE
        mag  == DigitsValue(SubSeq(body, 1, dot - 1)) * 1000
                + FracValue(SubSeq(body, dot + 1, Len(body)))
    IN  IF ~ok THEN NaN ELSE Num(IF neg THEN 0 - mag ELSE mag)

\* the decimal digits of a natural number
RECURSIVE IntDigits(_)
IntDigits(n) ==
    IF n < 10 THEN <<Digits[n + 1]>>
    ELSE IntDigits(n \div 10) \o <<Digits[(n % 10) + 1]>>

\* the digits of t thousandths after the decimal point, without trailing
\* zeros but with one digit at least
FracDigits(t) ==
    IF t % 100 = 0 THEN <<Digits[(t \div 100) + 1]>>
    ELSE IF t % 10 = 0
         THEN <<Digits[(t \div 100) + 1], Digits[((t \div 10) % 10) + 1]>>
         ELSE <<Digits[(t \div 100) + 1], Digits[((t \div 10) % 10) + 1],
                Digits[(t % 10) + 1]>>

\* line 440: astype(str) of a float: "nan", or the shortest text that reads
\* back as the float ("100.0", "0.5", "-5.0")
float_str(f) ==
    IF ~IsNum(f) THEN <<"n", "a", "n">>
    ELSE LET mag == IF f.v < 0 THEN 0 - f.v ELSE f.v
         IN  (IF f.v < 0 THEN <<"-">> ELSE <<>>)
             \o IntDigits(mag \div 1000) \o <<".">> \o FracDigits(mag % 1000)

\* a column of floats as the normalizer reads it
float_column(col) == Column([i \in 1..Len(col) |-> float_str(col[i])])

\* lines 440-443: clean one cell and parse it
ParseCell(cell) ==
    to_numeric_coerce(
        str_replace(str_replace(strip(astype_str(cell)), "%", <<>>), ",", <<".">>))

\* line 445: nums.dropna()
dropna(col) == SelectSeq(col, notna)

\* the scale test with >= 0.8 in place of > 0.8
MostlyFractionAtLeast(non_na) ==
    LET k == Cardinality({i \in 1..Len(non_na) : between01(non_na[i])})
    IN  Len(non_na) > 0 /\ 5 * k >= 4 * Len(non_na)

\* line 446: non_na.between(0, 1).mean() > 0.8, as an integer comparison
\* (k / n > 0.8 in floats exactly when 5 * k > 4 * n)
MostlyFraction(non_na) ==
    LET k == Cardinality({i \in 1..Len(non_na) : between01(non_na[i])})
    IN  Len(non_na) > 0 /\ 5 * k > 4 * Len(non_na)

\* def _to_number_percent_aware(series)
to_number_percent_aware(ser) ==
    IF ser = None THEN <<>>
    ELSE LET parsed == [i \in 1..Len(ser.cells) |-> ParseCell(ser.cells[i])]
         IN  IF MostlyFraction(dropna(parsed))
             THEN [i \in 1..Len(parsed) |-> Times100(parsed[i])]
             ELSE parsed

\* ------------------------------------------------------------------ inputs
\* Cell texts as they occur in the registration sheets.
Cells == {
    <<"0", ",", "5">>,                      \* fraction with a decimal comma
    <<"1">>,                                \* pass code / upper end of [0,1]
    <<" ", "7", "2", ".", "3", "%">>,       \* percent string
    <<"1", "5", "0">>,                      \* large number
    <<"-", "5">>,                           \* negative number
    <<"n", "/", "a">>,                      \* text that is no number
    Missing }

RECURSIVE SeqsUpTo(_, _)
SeqsUpTo(S, n) ==
    IF n = 0 THEN {<<>>}
    ELSE LET shorter == SeqsUpTo(S, n - 1)
         IN  shorter \cup {Append(s, x) : s \in {t \in shorter : Len(t) = n - 1}, x \in S}

\* ------------------------------------------------------------------ tables
\* A program name is a positive integer (its rank among the names in sort
\* order); NoKey is a missing name (NaN).
NoKey == 0

\* Columns of trainee_df: "prog" is 'البرنامج التدريبي', "init" is
\* 'الامتحان المبدئي', "alt" is 'الامتحان النهائي', "init_numeric" is
\* 'الامتحان المبدئي_numeric'.  A row carries every field; a field of a column
\* that the table does not have is Missing (NaN for the derived columns).
\* "gov" is 'المحافظة'.  'Attendance' is a column of floats.
TraineeRow(prog, gov, init, score, alt) ==
    [prog |-> prog, gov |-> gov, init |-> init, Score |-> score, alt |-> alt,
     Attendance |-> NaN, init_numeric |-> NaN, final_exam_numeric |-> NaN]
\* A row of plan_df: "target" is 'عدد المستهدفين', a float or NaN.
PlanRow(prog, gov, target) == [prog |-> prog, gov |-> gov, target |-> target]
\* A row of the report's sheets: only the program name is read per row.
ReportRow(prog) == [prog |-> prog]
Table(cols, rows) == [columns |-> cols, rows |-> rows]
EmptyTable == Table({}, <<>>)

\* df[c] as a column, df.get(c) when the column may be absent
df_get(df, c) ==
    IF c \in df.columns THEN Column([i \in 1..Len(df.rows) |-> df.rows[i][c]])
    ELSE None

\* index alignment of an assigned Series: labels it lacks become NaN
Reindex(col, n) == [i \in 1..n |-> IF i <= Len(col) THEN col[i] ELSE NaN]

\* an assignment that also drops the rows without a value in the new column
df_set_dropna(df, c, col) ==
    Table(df.columns \cup {c},
          SelectSeq([i \in 1..Len(df.rows) |->
                        [df.rows[i] EXCEPT ![c] = Reindex(col, Len(df.rows))[i]]],
                    LAMBDA r : notna(r[c])))

\* df[c] = col
df_set(df, c, col) ==
    Table(df.columns \cup {c},
          [i \in 1..Len(df.rows) |->
              [df.rows[i] EXCEPT ![c] = Reindex(col, Len(df.rows))[i]]])

\* col.notna().sum()
count_notna(col) == Cardinality({i \in 1..Len(col) : notna(col[i])})

\* (col >= 60).sum(): a comparison with NaN is False
count_ge60(col) ==
    Cardinality({i \in 1..Len(col) : IsNum(col[i]) /\ col[i].v >= 60000})

\* round(num / den, 1) in tenths, ties to the even tenth (numpy), num >= 0
Round1(num, den) ==
    LET q == (num * 10) \div den
        r == (num * 10) % den
    IN  IF 2 * r < den THEN q
        ELSE IF 2 * r > den THEN q + 1
        ELSE IF q % 2 = 0 THEN q ELSE q + 1

Max(a, b) == IF a >= b THEN a ELSE b
Min(a, b) == IF a <= b THEN a ELSE b

\* ascending sequence of a finite set of integers
RECURSIVE SortSet(_)
SortSet(S) ==
    IF S = {} THEN <<>>
    ELSE LET m == CHOOSE x \in S : \A y \in S : x <= y
         IN  <<m>> \o SortSet(S \ {m})

\* ------------------------------------------------------------------ reconciler
\* The average class size 17.75 of report_generator.py, times 100.
AvgClassSizeX100 == 1775
\* head(15) of the truncated comparison tables
TopN == 15

\* sorted non-missing values of column c
keys_of(rows, c) == SortSet({rows[i][c] : i \in 1..Len(rows)} \ {NoKey})

\* an aggregate is a sequence of [key, val], val a float
Agg(key, val) == [key |-> key, val |-> val]

\* groupby(c).size().reset_index(name=...): one row per key, in key order
groupby_size(rows, c) ==
    LET keys == keys_of(rows, c)
    IN  [j \in 1..Len(keys) |->
            Agg(keys[j],
                Num(1000 * Cardinality({i \in 1..Len(rows) : rows[i][c] = keys[j]})))]

\* sum of the numbers of a sequence of floats, NaN skipped (0 when all are NaN)
RECURSIVE nansum(_)
nansum(col) ==
    IF col = <<>> THEN 0
    ELSE (IF IsNum(Head(col)) THEN Head(col).v ELSE 0) + nansum(Tail(col))

\* groupby(c)['target'].sum().reset_index()
groupby_sum(rows, c) ==
    LET keys == keys_of(rows, c)
    IN  [j \in 1..Len(keys) |->
            LET g == SelectSeq(rows, LAMBDA r : r[c] = keys[j])
            IN  Agg(keys[j], Num(nansum([i \in 1..Len(g) |-> g[i].target])))]

\* a row of a merged table
Joined(key, planned, actual) == [key |-> key, planned |-> planned, actual |-> actual]

RECURSIVE Concat(_)
Concat(ss) == IF ss = <<>> THEN <<>> ELSE Head(ss) \o Concat(Tail(ss))

\* the rows a join gives for one key: every pair of a left and a right row
\* of the key, or the rows of the one side with NaN for the other
join_key(L, R, key) ==
    LET ls == SelectSeq(L, LAMBDA r : r.key = key)
        rs == SelectSeq(R, LAMBDA r : r.key = key)
    IN  IF rs = <<>> THEN [i \in 1..Len(ls) |-> Joined(key, ls[i].val, NaN)]
        ELSE IF ls = <<>> THEN [j \in 1..Len(rs) |-> Joined(key, NaN, rs[j].val)]
        ELSE Concat([i \in 1..Len(ls) |->
                        [j \in 1..Len(rs) |-> Joined(key, ls[i].val, rs[j].val)]])

\* left.merge(right, on=key, how='left'): the keys of the left side only
merge_left(L, R) ==
    Concat([i \in 1..Len(L) |->
               LET rs == SelectSeq(R, LAMBDA r : r.key = L[i].key)
               IN  IF rs = <<>> THEN <<Joined(L[i].key, L[i].val, NaN)>>
                   ELSE [j \in 1..Len(rs) |-> Joined(L[i].key, L[i].val, rs[j].val)]])

\* left.merge(right, on=key, how='outer'): the union of the keys, sorted
merge_outer(L, R) ==
    LET keys == SortSet({L[i].key : i \in 1..Len(L)} \cup {R[j].key : j \in 1..Len(R)})
    IN  Concat([k \in 1..Len(keys) |-> join_key(L, R, keys[k])])

\* a fill that leaves the missing values as they are
fill_nothing(f) == f

\* fillna(0) of one value
fillna0(f) == IF f = NaN THEN Num(0) ELSE f

\* .fillna(0) of a merged table
fillna_table(rows) ==
    [i \in 1..Len(rows) |->
        Joined(rows[i].key, fillna0(rows[i].planned), fillna0(rows[i].actual))]

\* round(num / den * 100, 1) in floats: x / 0 is inf for x > 0 and NaN for
\* x = 0 (num, den >= 0)
rate_pct(num, den) ==
    IF den = 0 THEN (IF num = 0 THEN NaN ELSE Inf)
    ELSE Num(100 * Round1(num * 100, den))

\* the value of a float that holds a whole number (a count, a target)
whole(f) == f.v \div 1000

\* report_generator.py line 47: actual / (planned * 17.75) * 100, then
\* .fillna(0).round(1)
report_fulfillment(row) ==
    fillna0(rate_pct(whole(row.actual) * 100, whole(row.planned) * AvgClassSizeX100))

\* dashboard.py line 588: (actual / target * 100).round(1)
dash_fulfillment(row) == rate_pct(whole(row.actual), whole(row.planned))

\* place r after the rows whose planned value is not smaller
RECURSIVE insert_desc(_, _)
insert_desc(sorted, r) ==
    IF sorted = <<>> THEN <<r>>
    ELSE IF Head(sorted).planned.v >= r.planned.v
         THEN <<Head(sorted)>> \o insert_desc(Tail(sorted), r)
         ELSE <<r>> \o sorted

\* sort_values(planned, ascending=False); rows with equal values keep their
\* order (numpy sorts arrays of up to 16 elements by insertion)
RECURSIVE sort_desc(_)
sort_desc(rows) ==
    IF rows = <<>> THEN <<>>
    ELSE insert_desc(sort_desc(SubSeq(rows, 1, Len(rows) - 1)), rows[Len(rows)])

\* the last n rows instead of the first
tail_rows(rows, n) == SubSeq(rows, Len(rows) - Min(n, Len(rows)) + 1, Len(rows))

\* .head(n)
head(rows, n) == SubSeq(rows, 1, Min(n, Len(rows)))

\* value_counts().reset_index(): one row per key, most frequent first
value_counts(rows, c) ==
    LET sized == groupby_size(rows, c)
        asrow == [i \in 1..Len(sized) |-> Joined(sized[i].key, sized[i].val, NaN)]
        sorted == sort_desc(asrow)
    IN  [i \in 1..Len(sorted) |-> Agg(sorted[i].key, sorted[i].planned)]

\* what one reconciliation leaves behind: the two aggregates, their join
\* after fillna, and the table that is shown
Recon(plan_side, actual_side, joined, shown_rows) ==
    [plan_side |-> plan_side, actual_side |-> actual_side,
     joined |-> joined, rows |-> shown_rows]
NoRecon == Recon(<<>>, <<>>, <<>>, <<>>)

\* the Excel file: whether read_excel can read it, and its sheets
Book(readable, sheets) == [exists |-> TRUE, readable |-> readable, sheets |-> sheets]
\* a file that is there and cannot be read
NoBook == Book(FALSE, <<>>)
\* no file at the path: read_excel raises FileNotFoundError
NoFile == [exists |-> FALSE, readable |-> FALSE, sheets |-> <<>>]

\* what a report run has computed; written tells whether it reached its file
Report(written, total_courses, total_trainees, total_registrations, rate, recon) ==
    [written |-> written, total_courses |-> total_courses,
     total_trainees |-> total_trainees,
     total_registrations |-> total_registrations,
     enrollment_rate |-> rate, comparison |-> recon]
NoReport == Report(FALSE, 0, 0, 0, FracNaN, NoRecon)

with_rate(rows, rate(_)) ==
    [i \in 1..Len(rows) |->
        [key |-> rows[i].key, planned |-> rows[i].planned,
         actual |-> rows[i].actual, fulfillment_rate |-> rate(rows[i])]]

\* report_generator.py lines 44-48 (limit 0: all rows) and 203-207 (limit 15)
report_comparison(programs, registrations, limit) ==
    LET plan_by_program == groupby_size(programs.rows, "prog")
        actual_by_program == groupby_size(registrations.rows, "prog")
        joined == fillna_table(merge_outer(plan_by_program, actual_by_program))
        sorted == sort_desc(with_rate(joined, report_fulfillment))
    IN  Recon(plan_by_program, actual_by_program, joined,
              IF limit = 0 THEN sorted ELSE head(sorted, limit))

\* dashboard.py lines 579-589
dash_comparison(plan, trainee) ==
    LET plan_by_program == groupby_sum(plan.rows, "prog")
        actual_by_program == groupby_size(trainee.rows, "prog")
        joined == fillna_table(merge_outer(plan_by_program, actual_by_program))
    IN  Recon(plan_by_program, actual_by_program, joined,
              head(sort_desc(with_rate(joined, dash_fulfillment)), TopN))

\* dashboard.py lines 637-642
dash_gov_comparison(plan, trainee) ==
    LET plan_by_gov == groupby_sum(plan.rows, "gov")
        actual_by_gov == value_counts(trainee.rows, "gov")
        joined == fillna_table(merge_outer(plan_by_gov, actual_by_gov))
    IN  Recon(plan_by_gov, actual_by_gov, joined, sort_desc(joined))

\* dashboard.py lines 648-653
dash_courses_gov_comp(plan, trainee) ==
    LET plan_courses_gov == value_counts(plan.rows, "gov")
        actual_courses_gov == groupby_size(trainee.rows, "gov")
        joined == fillna_table(merge_outer(plan_courses_gov, actual_courses_gov))
    IN  Recon(plan_courses_gov, actual_courses_gov, joined, sort_desc(joined))

\* ------------------------------------------------------------------ exam block
\* a threshold that is 5% of the row count rounded up, for every row count
min_population_ceil(n) == Max(5, (n + 19) \div 20)

\* line 456: threshold = max(5, int(0.05 * len(trainee_df))) if len > 0 else 0
min_population(n) == IF n > 0 THEN Max(5, n \div 20) ELSE 0

\* lines 457-465: which source is used; "final_exam" is the label
\* 'الامتحان النهائي', "unavailable" is 'غير متاح'
final_source(score_non_na, alt_non_na, thr) ==
    IF score_non_na >= thr THEN "Score"
    ELSE IF alt_non_na > 0 THEN "final_exam"
    ELSE "unavailable"

\* pass rate over all rows of the group, missing values included
pass_rate_all_rows(col) ==
    IF Len(col) > 0 THEN Frac(count_ge60(col) * 100, Len(col)) ELSE Frac(0, 1)

\* lines 469-472: (col >= 60).sum() / valid * 100 if valid > 0 else 0
pass_rate(col) ==
    IF count_notna(col) > 0
    THEN Frac(count_ge60(col) * 100, count_notna(col))
    ELSE Frac(0, 1)

\* def _success_rates(g), g the rows of one group
success_rates(g) ==
    [initial_success_rate |->
        pass_rate([i \in 1..Len(g) |-> g[i].init_numeric]),
     final_success_rate |->
        pass_rate([i \in 1..Len(g) |-> g[i].final_exam_numeric])]

\* groupby('prog'): the sorted keys (NaN keys are dropped), the rows of a key
group_keys(rows) ==
    SortSet({rows[i].prog : i \in 1..Len(rows)} \ {NoKey})
group_rows(rows, key) == SelectSeq(rows, LAMBDA r : r.prog = key)

\* lines 450-455: normalize the three exam columns
ExamNormalize ==
    /\ pc = "exam_try"
    /\ trainee_df' = df_set(trainee_df, "init_numeric",
                            to_number_percent_aware(df_get(trainee_df, "init")))
    /\ score_series' = IF "Score" \in trainee_df.columns
                       THEN to_number_percent_aware(df_get(trainee_df, "Score"))
                       ELSE <<>>
    /\ alt_final_series' = IF "alt" \in trainee_df.columns
                           THEN to_number_percent_aware(df_get(trainee_df, "alt"))
                           ELSE <<>>
    /\ pc' = "exam_select"
    /\ UNCHANGED <<normVars, threshold, final_source_used, program_exam_data, shown,
                   envVars, dashVars, cmpVars, reportVars, viewVars>>

\* lines 454-465: choose the source of the final score
ExamSelect ==
    /\ pc = "exam_select"
    /\ LET n   == Len(trainee_df.rows)
           thr == min_population(n)
           src == final_source(count_notna(score_series),
                               count_notna(alt_final_series), thr)
       IN  /\ threshold' = thr
           /\ final_source_used' = src
           /\ trainee_df' = df_set(trainee_df, "final_exam_numeric",
                  CASE src = "Score" -> score_series
                    [] src = "final_exam" -> alt_final_series
                    [] OTHER -> [i \in 1..n |-> NaN])
    /\ pc' = "exam_rates"
    /\ UNCHANGED <<normVars, score_series, alt_final_series, program_exam_data, shown,
                   envVars, dashVars, cmpVars, reportVars, viewVars>>

\* line 475: groupby(...).apply(_success_rates).reset_index(): one row per
\* program with the two rates as columns
ExamRates ==
    /\ pc = "exam_rates"
    /\ LET keys == group_keys(trainee_df.rows)
       IN  program_exam_data' =
               [j \in 1..Len(keys) |->
                   [prog |-> keys[j],
                    rates |-> success_rates(group_rows(trainee_df.rows, keys[j]))]]
    /\ pc' = "exam_columns"
    /\ UNCHANGED <<normVars, trainee_df, score_series, alt_final_series,
                   threshold, final_source_used, shown,
                   envVars, dashVars, cmpVars, reportVars, viewVars>>

\* line 477: two column names are assigned to a frame that has three columns
\* (the key and the two rates): ValueError, caught at line 543
ExamColumnsRaise ==
    /\ pc = "exam_columns"
    /\ pc' = "exam_except"
    /\ UNCHANGED <<normVars, examVars, shown, envVars, dashVars, cmpVars, reportVars, viewVars>>

\* line 477 when there is no group: the shape of the frame apply() gives for
\* no group at all differs between pandas versions, so the assignment may
\* also pass; lines 478-481 then run on a frame without rows
ExamColumnsPass ==
    /\ pc = "exam_columns"
    /\ Len(program_exam_data) = 0
    /\ pc' = "exam_chart"
    /\ UNCHANGED <<normVars, examVars, shown, envVars, dashVars, cmpVars, reportVars, viewVars>>

\* sum of the rates being > 0: some rate has a positive numerator
some_rate_positive(ped) ==
    \E j \in 1..Len(ped) : ped[j].rates.initial_success_rate.num > 0
                           \/ ped[j].rates.final_success_rate.num > 0

\* lines 483-542: the chart with the caption naming the source, then the two
\* histograms
ExamChart ==
    /\ pc = "exam_chart"
    /\ shown' = shown
         \cup (IF Len(program_exam_data) > 0 /\ some_rate_positive(program_exam_data)
               THEN {"caption_final_source", "chart_success_rate"} ELSE {})
         \cup (IF \E i \in 1..Len(trainee_df.rows) :
                     notna(trainee_df.rows[i].init_numeric)
               THEN {"hist_initial"} ELSE {})
         \cup (IF \E i \in 1..Len(trainee_df.rows) :
                     notna(trainee_df.rows[i].final_exam_numeric)
               THEN {"hist_final"} ELSE {})
    /\ pc' = "data_table"
    /\ UNCHANGED <<normVars, examVars, envVars, dashVars, cmpVars, reportVars, viewVars>>

\* lines 543-544: except: st.info(...)
ExamExcept ==
    /\ pc = "exam_except"
    /\ shown' = shown \cup {"info_not_numeric"}
    /\ pc' = "data_table"
    /\ UNCHANGED <<normVars, examVars, envVars, dashVars, cmpVars, reportVars, viewVars>>

\* lines 547-554: the filtered trainee table ends the view
DataTable ==
    /\ pc = "data_table"
    /\ shown' = shown \cup {"data_table"}
    /\ pc' = "done"
    /\ UNCHANGED <<normVars, examVars, envVars, dashVars, cmpVars, reportVars, viewVars>>

\* ------------------------------------------------------------------ core on a subset
\* line 373: df[df[c].isin(selected)]; a missing key is in the selection when
\* the selection holds the missing value
isin_filter(df, c, selected) ==
    Table(df.columns, SelectSeq(df.rows, LAMBDA r : r[c] \in selected))

\* one group of the result: its key, its number of rows, its pass rate
Group(prog, count, rate) == [prog |-> prog, count |-> count, rate |-> rate]
\* what the core gives for a table: the normalized initial-exam column
\* (line 450) and, per program, the count and the pass rate (lines 468-475)
Core(col, groups) == [nums |-> col, groups |-> groups]
NoCore == Core(<<>>, <<>>)
core(df) ==
    LET col == to_number_percent_aware(df_get(df, "init"))
        t == df_set(df, "init_numeric", col)
        keys == group_keys(t.rows)
    IN  Core(col,
             [j \in 1..Len(keys) |->
                 LET g == group_rows(t.rows, keys[j])
                 IN  Group(keys[j], Len(g), success_rates(g).initial_success_rate)])

\* Tables whose initial-exam cells are a pass code 1, a percentage or missing.
SubsetCells == {<<"1">>, <<"6", "5">>, Missing}
SubsetTables ==
    {Table({"prog", "gov", "init"}, rows) :
        rows \in SeqsUpTo({TraineeRow(p, 1, c, Missing, Missing) :
                              p \in {1, 2}, c \in SubsetCells}, MaxRows)}

\* the rows of the selected programs are filtered out of the table
SubsetFilter ==
    /\ pc = "subset_filter"
    /\ filtered_trainee' = isin_filter(trainee_df, "prog", selected_course)
    /\ pc' = "subset_full"
    /\ UNCHANGED <<normVars, examVars, shown, envVars, dashVars, cmpVars, reportVars,
                   overviewVars, selected_course, selected_gov_trainee,
                   attendance_filter, coreVars>>

\* the core is applied to the full table
CoreOnFull ==
    /\ pc = "subset_full"
    /\ on_full' = core(trainee_df)
    /\ pc' = "subset_sub"
    /\ UNCHANGED <<normVars, examVars, shown, envVars, dashVars, cmpVars, reportVars,
                   overviewVars, filterVars, on_subset>>

\* the core is applied to the filtered rows
CoreOnSubset ==
    /\ pc = "subset_sub"
    /\ on_subset' = core(filtered_trainee)
    /\ pc' = "subset_done"
    /\ UNCHANGED <<normVars, examVars, shown, envVars, dashVars, cmpVars, reportVars,
                   overviewVars, filterVars, on_full>>

\* Tables with arbitrary cells: a program and an initial-exam cell per row, no
\* 'Score' and no alternate column.
InitCells == {<<"5", "5">>, <<"6", "0">>, <<"6", "5">>, Missing}
SmallTablesOf(n) ==
    {Table({"prog", "gov", "init"}, rows) :
        rows \in SeqsUpTo({TraineeRow(p, 1, c, Missing, Missing) :
                              p \in {1, 2}, c \in InitCells}, n)}
SmallTables == SmallTablesOf(MaxRows)

\* Tables with uniform cells: n rows of one program p (or of none), the first
\* s with a 'Score' cell and the first a with an alternate final-exam cell.
UniformTable(cols, p, n, s, a) ==
    Table(cols,
          [i \in 1..n |->
              TraineeRow(p, 1, Missing,
                         IF i <= s THEN <<" ", "7", "2", ".", "3", "%">> ELSE Missing,
                         IF i <= a THEN <<"1">> ELSE Missing)])
UniformTables ==
    {UniformTable({"prog", "gov", "init", "Score", "alt"}, 1, n, s, a) :
        n \in 0..MaxRowCount, s \in 0..MaxScored, a \in {0, 1, MaxAlt}}
    \cup {UniformTable({"prog", "gov", "alt"}, p, n, 0, a) :
        p \in {NoKey, 1}, n \in 0..MaxRowCount, a \in {0, 1, MaxAlt}}

ExamIdle ==
    /\ score_series = <<>>
    /\ alt_final_series = <<>>
    /\ threshold = 0
    /\ final_source_used = "unset"
    /\ program_exam_data = <<>>
    /\ shown = {}

\* nothing has been compared yet
CompareIdle ==
    /\ enrollment_rate = FracNaN
    /\ comparison = NoRecon
    /\ gov_comparison = NoRecon
    /\ courses_gov_comp = NoRecon

\* no file, no dashboard run
DashIdle ==
    /\ workbook = NoBook
    /\ radio = "unset"
    /\ uploaded_file = FALSE
    /\ default_exists = FALSE
    /\ file_to_use = "unset"
    /\ plan_df = EmptyTable
    /\ sheet_view = "unset"
    /\ CompareIdle

\* the Overview page has computed nothing
OverviewIdle ==
    /\ success_rate = FracNaN
    /\ failure_rate = FracNaN
    /\ gov_performance = <<>>
    /\ program_performance = <<>>
\* nothing has been filtered
FilterIdle ==
    /\ selected_course = {}
    /\ selected_gov_trainee = {}
    /\ attendance_filter = 0
    /\ filtered_trainee = EmptyTable
CoreIdle == on_full = NoCore /\ on_subset = NoCore
ViewIdle == OverviewIdle /\ FilterIdle /\ CoreIdle

\* the report generator has loaded and written nothing
ReportIdle ==
    /\ programs_df = EmptyTable
    /\ trainees_df = EmptyTable
    /\ registration_df = EmptyTable
    /\ html = NoReport
    /\ pdf = NoReport

\* a table and a selection of programs to filter it by
InitSubset ==
    /\ pc = "subset_filter"
    /\ series = None
    /\ nums = <<>>
    /\ nums_again = <<>>
    /\ trainee_df \in SubsetTables
    /\ ExamIdle
    /\ DashIdle
    /\ ReportIdle
    /\ OverviewIdle
    /\ CoreIdle
    /\ selected_course \in {{1}, {2}, {1, 2}}
    /\ selected_gov_trainee = {}
    /\ attendance_filter = 0
    /\ filtered_trainee = EmptyTable

NextSubset ==
    \/ SubsetFilter
    \/ CoreOnFull
    \/ CoreOnSubset

SpecSubset == InitSubset /\ [][NextSubset]_vars

\* the positions in trainee_df of the rows that the filter keeps, in order
Retained ==
    SelectSeq([i \in 1..Len(trainee_df.rows) |-> i],
              LAMBDA i : trainee_df.rows[i].prog \in selected_course)
SameRate(a, b) == a.k = b.k /\ a.num * b.den = b.num * a.den

\* C17: normalizing and aggregating the filtered rows gives every retained
\* row the normalized value, and every retained program the count and the
\* pass rate, that normalizing and aggregating all rows gives them.
C17_SubsetLikeFullSet ==
    pc = "subset_done" =>
        /\ Len(on_subset.nums) = Len(Retained)
        /\ \A j \in 1..Len(Retained) : on_subset.nums[j] = on_full.nums[Retained[j]]
        /\ \A j \in 1..Len(on_subset.groups) :
              \E k \in 1..Len(on_full.groups) :
                  /\ on_full.groups[k].prog = on_subset.groups[j].prog
                  /\ on_full.groups[k].count = on_subset.groups[j].count
                  /\ SameRate(on_full.groups[k].rate, on_subset.groups[j].rate)

InitExam ==
    /\ pc = "exam_try"
    /\ series = None
    /\ nums = <<>>
    /\ nums_again = <<>>
    /\ trainee_df \in SmallTables \cup UniformTables
    /\ ExamIdle
    /\ DashIdle
    /\ ReportIdle
    /\ ViewIdle

NextExam ==
    \/ ExamNormalize
    \/ ExamSelect
    \/ ExamRates
    \/ ExamColumnsRaise
    \/ ExamColumnsPass
    \/ ExamChart
    \/ ExamExcept
    \/ DataTable

SpecExam == InitExam /\ [][NextExam]_vars

\* the selection of lines 456-465 has run
SourceSelected == pc \notin {"exam_try", "exam_select"}
FinalColumn ==
    [i \in 1..Len(trainee_df.rows) |-> trainee_df.rows[i].final_exam_numeric]
\* what must hold of the state when the named source was chosen
ChosenIs(label) ==
    /\ final_source_used = label
    /\ label = "Score" /\ "Score" \in trainee_df.columns
          => FinalColumn = score_series
    /\ label = "final_exam" => FinalColumn = alt_final_series
    /\ label = "unavailable" => \A i \in 1..Len(FinalColumn) : FinalColumn[i] = NaN
ChosenBy(meets) ==
    IF meets THEN ChosenIs("Score")
    ELSE IF count_notna(alt_final_series) >= 1 THEN ChosenIs("final_exam")
    ELSE ChosenIs("unavailable")

\* C8 (as claimed): with T = max(5, 5% of the row count), 'Score' is chosen
\* exactly when its non-missing count is at least T, else the alternate
\* column exactly when it has a value, else nothing ('unavailable', all
\* missing); for every row count, 0 included.
C8_ThresholdFivePercent ==
    SourceSelected =>
        ChosenBy(/\ count_notna(score_series) >= 5
                 /\ 20 * count_notna(score_series) >= Len(trainee_df.rows))

\* C8 (amended): the same with T = max(5, 5% of the row count rounded down)
\* for a table with rows, and T = 0 for a table without rows (so 'Score' is
\* chosen there).
C8_ThresholdRoundedDown ==
    SourceSelected =>
        ChosenBy(\/ Len(trainee_df.rows) = 0
                 \/ /\ count_notna(score_series) >= 5
                    /\ 20 * count_notna(score_series) + 19 >= Len(trainee_df.rows))

\* 101 rows, 5 of them with a 'Score': 5% is 5.05, and 'Score' is chosen
C8_Witness ==
    /\ pc = "exam_rates"
    /\ Len(trainee_df.rows) = 101
    /\ count_notna(score_series) = 5
    /\ count_notna(alt_final_series) = 40
    /\ threshold = 5
    /\ final_source_used = "Score"

\* the example of the specification: 3 of 200 'Score' values, 40 alternate
\* values, and the alternate column is chosen
C8_WitnessExample ==
    /\ pc = "exam_rates"
    /\ Len(trainee_df.rows) = 200
    /\ count_notna(score_series) = 3
    /\ count_notna(alt_final_series) = 40
    /\ threshold = 10
    /\ final_source_used = "final_exam"

\* C9: when the source selection has run in a render of the Trainee Details
\* view, the render does not finish without the provenance label having been
\* displayed.
C9_LabelSurfaced ==
    (pc = "done" /\ final_source_used # "unset") => "caption_final_source" \in shown

\* rows of a program, those with a value in column c, those that pass
RowsOf(key) == {i \in 1..Len(trainee_df.rows) : trainee_df.rows[i].prog = key}
ValidOf(key, c) == {i \in RowsOf(key) : trainee_df.rows[i][c] # NaN}
PassedOf(key, c) ==
    {i \in ValidOf(key, c) : trainee_df.rows[i][c].v >= 60 * 1000}
RateIs(rate, key, c) ==
    /\ rate.den > 0
    /\ IF ValidOf(key, c) = {} THEN rate.num = 0
       ELSE rate.num * Cardinality(ValidOf(key, c))
                = 100 * Cardinality(PassedOf(key, c)) * rate.den

\* C10: the pass rate of every group is the number of its non-missing values
\* that are >= 60 over the number of its non-missing values, times 100, and
\* 0 for a group without a non-missing value.
C10_PassRateOverValid ==
    pc \in {"exam_columns", "exam_except", "exam_chart", "data_table", "done"} =>
        /\ {program_exam_data[j].prog : j \in 1..Len(program_exam_data)}
              = {trainee_df.rows[i].prog : i \in 1..Len(trainee_df.rows)} \ {NoKey}
        /\ \A j \in 1..Len(program_exam_data) :
              LET row == program_exam_data[j]
              IN  /\ RateIs(row.rates.initial_success_rate, row.prog, "init_numeric")
                  /\ RateIs(row.rates.final_success_rate, row.prog, "final_exam_numeric")

\* the group [55, 60, 65, missing]: 2 / 3 * 100, shown as 66.7, and 0 for its
\* final exam, which has no value at all
C10_Witness ==
    /\ pc = "exam_columns"
    /\ \E j \in 1..Len(program_exam_data) :
          LET row == program_exam_data[j]
              g == group_rows(trainee_df.rows, row.prog)
          IN  /\ [i \in 1..Len(g) |-> g[i].init_numeric]
                    = <<Num(55000), Num(60000), Num(65000), NaN>>
              /\ row.rates.initial_success_rate = Frac(200, 3)
              /\ Round1(200, 3) = 667
              /\ row.rates.final_success_rate = Frac(0, 1)

\* C13: when the initial-exam column the exam block expects is absent from
\* the trainee table, no column or aggregate is derived from the table and the
\* render does not carry on to the data table (it ends in a fatal error).
C13_MissingColumnIsFatal ==
    "init" \notin trainee_df.columns =>
        /\ "init_numeric" \notin trainee_df.columns
        /\ "final_exam_numeric" \notin trainee_df.columns
        /\ program_exam_data = <<>>
        /\ "data_table" \notin shown

\* ------------------------------------------------------------------ report generator
\* Sheets whose rows name a program or none.
ReportTables ==
    {Table({"prog"}, rows) :
        rows \in SeqsUpTo({ReportRow(p) : p \in {NoKey, 1, 2}}, MaxSheetRows)}
\* a sheet of a rows of program 1 followed by b rows of program 2
CountTable(a, b) ==
    Table({"prog"}, [i \in 1..(a + b) |-> ReportRow(IF i <= a THEN 1 ELSE 2)])

\* a sheet of n programs, k rows of program k
WideSheet(n) == Table({"prog"}, Concat([k \in 1..n |-> [i \in 1..k |-> ReportRow(k)]]))

ReportSheets(programs, trainees, registration) ==
    [programs |-> programs, trainees |-> trainees, registration |-> registration]

ReportBooks ==
    {Book(TRUE, ReportSheets(p, t, r)) :
        p \in ReportTables, t \in {CountTable(0, 0), CountTable(1, 0)},
        r \in ReportTables}
    \cup {Book(TRUE, ReportSheets(CountTable(a, 0), CountTable(b + c, 0), CountTable(b, c))) :
        a \in 0..MaxCourses, b \in {0, MaxRegistered}, c \in {0, MaxOther}}
    \cup {Book(TRUE, ReportSheets(WideSheet(n), CountTable(1, 0), CountTable(1, 0))) :
        n \in {TopN, MaxPrograms}}
    \cup {NoBook, NoFile}

InitReport ==
    /\ pc = "main"
    /\ workbook \in ReportBooks
    /\ radio = "unset"
    /\ uploaded_file = FALSE
    /\ default_exists = FALSE
    /\ file_to_use = "unset"
    /\ plan_df = EmptyTable
    /\ sheet_view = "unset"
    /\ CompareIdle
    /\ ReportIdle
    /\ ViewIdle
    /\ series = None
    /\ nums = <<>>
    /\ nums_again = <<>>
    /\ trainee_df = EmptyTable
    /\ ExamIdle

\* lines 14-18, 228: load_data(FILE_PATH) returns the three sheets
ReportLoad ==
    /\ pc = "main"
    /\ workbook.readable
    /\ programs_df' = workbook.sheets.programs
    /\ trainees_df' = workbook.sheets.trainees
    /\ registration_df' = workbook.sheets.registration
    /\ pc' = "build_report"
    /\ UNCHANGED <<normVars, examVars, shown, envVars, dashVars, cmpVars, html, pdf, viewVars>>

\* lines 14-18, 228: read_excel raises and main() ends with the traceback
ReportLoadError ==
    /\ pc = "main"
    /\ ~workbook.readable
    /\ shown' = shown \cup {"traceback"}
    /\ pc' = "crashed"
    /\ UNCHANGED <<normVars, examVars, envVars, dashVars, cmpVars, reportVars, viewVars>>

\* lines 29-33 and 131-135: the totals and the overall enrollment rate
report_enrollment_rate(total_courses, total_registrations) ==
    IF total_courses > 0
    THEN Frac(total_registrations * 10000, total_courses * AvgClassSizeX100)
    ELSE Frac(0, 1)

build(programs, trainees, registration, limit) ==
    Report(TRUE, Len(programs.rows), Len(trainees.rows), Len(registration.rows),
           report_enrollment_rate(Len(programs.rows), Len(registration.rows)),
           report_comparison(programs, registration, limit))

\* lines 28-117, 229-231: build_report and the HTML file
BuildReport ==
    /\ pc = "build_report"
    /\ html' = build(programs_df, trainees_df, registration_df, 0)
    /\ shown' = shown \cup {"Report written"}
    /\ pc' = "build_pdf"
    /\ UNCHANGED <<normVars, examVars, envVars, dashVars, cmpVars,
                   programs_df, trainees_df, registration_df, pdf, viewVars>>

\* lines 121-224, 232-233: build_pdf and the PDF file
BuildPdf ==
    /\ pc = "build_pdf"
    /\ pdf' = build(programs_df, trainees_df, registration_df, TopN)
    /\ shown' = shown \cup {"PDF written"}
    /\ pc' = "report_done"
    /\ UNCHANGED <<normVars, examVars, envVars, dashVars, cmpVars,
                   programs_df, trainees_df, registration_df, html, viewVars>>

\* ------------------------------------------------------------------ dashboard
Views == {"Overview", "Training Plan", "Trainee Details", "Comparative Analysis"}

\* Program and governorate of the rows of a reconciled sheet.
KeyPairs == {<<1, 1>>, <<2, 1>>, <<NoKey, 2>>}
Targets == {Num(0), Num(2000), NaN}
PlanTables ==
    {Table({"prog", "gov", "target"}, rows) :
        rows \in SeqsUpTo({PlanRow(kp[1], kp[2], t) : kp \in KeyPairs, t \in Targets},
                          MaxSheetRows)}
KeyedTrainees ==
    {Table({"prog", "gov", "alt"}, rows) :
        rows \in SeqsUpTo({TraineeRow(kp[1], kp[2], Missing, Missing, <<"1">>) :
                              kp \in KeyPairs}, MaxSheetRows)}

\* Trainee sheets with an 'Attendance' value (or none) in every row.
AttendanceRow(prog, gov, att) ==
    [TraineeRow(prog, gov, Missing, Missing, Missing) EXCEPT !.Attendance = att]
Attendances == {Num(50000), Num(60000), NaN}
AttendanceTables ==
    {Table({"prog", "gov", "Attendance"}, rows) :
        rows \in SeqsUpTo({AttendanceRow(kp[1], kp[2], a) :
                              kp \in KeyPairs, a \in Attendances}, MaxSheetRows)}

\* a plan of n programs, program k with a target of k, and one trainee
WidePlan(n) ==
    Table({"prog", "gov", "target"}, [k \in 1..n |-> PlanRow(k, 1, Num(k * 1000))])
OneTrainee ==
    Table({"prog", "gov", "alt"}, <<TraineeRow(1, 1, Missing, Missing, <<"1">>)>>)

\* Trainee sheets for the Trainee Details page: a program, a governorate or
\* none, an initial-exam cell or none, an attendance value or none per row.
DetailRow(prog, gov, init, att) ==
    [TraineeRow(prog, gov, init, Missing, Missing) EXCEPT !.Attendance = att]
DetailTables ==
    {Table({"prog", "gov", "init", "Attendance"}, rows) :
        rows \in SeqsUpTo({DetailRow(kp[1], kp[2], c, a) :
                              kp \in {<<1, 1>>, <<2, NoKey>>},
                              c \in {<<"6", "5">>, Missing},
                              a \in {Num(60000), NaN}}, MaxSheetRows)}

DashSheets(plan, trainee) == [plan |-> plan, trainee |-> trainee]

\* The files a run may find: for Comparative Analysis every pair of a plan
\* and a trainee sheet, for the other views the trainee sheets with exam
\* cells beside one plan; and a file that cannot be read.
DashBooks(view) ==
    (IF view = "Comparative Analysis"
     THEN {Book(TRUE, DashSheets(p, t)) : p \in PlanTables, t \in KeyedTrainees}
          \cup {Book(TRUE, DashSheets(WidePlan(n), OneTrainee)) :
                   n \in {TopN, MaxPrograms}}
     ELSE IF view = "Overview"
     THEN {Book(TRUE, DashSheets(Table({"prog", "gov", "target"},
                                       <<PlanRow(1, 1, Num(2000))>>), t)) :
              t \in AttendanceTables \cup SmallTablesOf(1)}
     ELSE IF view = "Trainee Details"
     THEN {Book(TRUE, DashSheets(Table({"prog", "gov", "target"},
                                       <<PlanRow(1, 1, Num(2000))>>), t)) :
              t \in DetailTables \cup SmallTablesOf(1)}
     ELSE {Book(TRUE, DashSheets(Table({"prog", "gov", "target"},
                                       <<PlanRow(1, 1, Num(2000))>>), t)) :
              t \in SmallTablesOf(MaxSheetRows)})
    \cup {NoBook}

InitDash ==
    /\ pc = "start"
    /\ radio \in Views
    /\ uploaded_file \in BOOLEAN
    /\ default_exists \in BOOLEAN
    /\ workbook \in DashBooks(radio)
    /\ file_to_use = "unset"
    /\ plan_df = EmptyTable
    /\ sheet_view = "unset"
    /\ CompareIdle
    /\ ReportIdle
    /\ ViewIdle
    /\ series = None
    /\ nums = <<>>
    /\ nums_again = <<>>
    /\ trainee_df = EmptyTable
    /\ ExamIdle

\* a choice that prefers the bundled file to an uploaded one
choose_bundled_first(uploaded, bundled) ==
    IF bundled THEN "default" ELSE IF uploaded THEN "uploaded" ELSE "None"

\* lines 49-56: an uploaded file, else the bundled file, else none
choose_file(uploaded, bundled) ==
    IF uploaded THEN "uploaded" ELSE IF bundled THEN "default" ELSE "None"

\* lines 48-56: file_to_use and the note in the sidebar
DetermineFile ==
    /\ pc = "start"
    /\ file_to_use' = choose_file(uploaded_file, default_exists)
    /\ shown' = shown \cup
                  (CASE file_to_use' = "uploaded" -> {"Using uploaded file"}
                     [] file_to_use' = "default" -> {"Using bundled file"}
                     [] OTHER -> {})
    /\ pc' = "load"
    /\ UNCHANGED <<normVars, examVars, envVars, plan_df, sheet_view, cmpVars, reportVars, viewVars>>

\* lines 60-62: no file: the warning, and the script stops
NoData ==
    /\ pc = "load"
    /\ file_to_use = "None"
    /\ shown' = shown \cup {"warning_no_data"}
    /\ pc' = "stopped"
    /\ UNCHANGED <<normVars, examVars, envVars, dashVars, cmpVars, reportVars, viewVars>>

\* lines 31-35, 63-65: load_data returns the two sheets
LoadData ==
    /\ pc = "load"
    /\ file_to_use # "None"
    /\ workbook.readable
    /\ plan_df' = workbook.sheets.plan
    /\ trainee_df' = workbook.sheets.trainee
    /\ shown' = shown \cup {"Data loaded successfully"}
    /\ pc' = "view"
    /\ UNCHANGED <<normVars, score_series, alt_final_series, threshold,
                   final_source_used, program_exam_data, envVars, file_to_use,
                   sheet_view, cmpVars, reportVars, viewVars>>

\* lines 66-68: load_data raises: the error, and the script stops
LoadError ==
    /\ pc = "load"
    /\ file_to_use # "None"
    /\ ~workbook.readable
    /\ shown' = shown \cup {"error_loading_data"}
    /\ pc' = "stopped"
    /\ UNCHANGED <<normVars, examVars, envVars, dashVars, cmpVars, reportVars, viewVars>>

\* line 76: the radio button gives the view
SelectView ==
    /\ pc = "view"
    /\ sheet_view' = radio
    /\ pc' = radio
    /\ UNCHANGED <<normVars, examVars, shown, envVars, file_to_use, plan_df,
                   cmpVars, reportVars, viewVars>>

\* (col < 60).sum(): a comparison with NaN is False
count_lt60(col) ==
    Cardinality({i \in 1..Len(col) : IsNum(col[i]) /\ col[i].v < 60000})

\* lines 85-87 and 129: the divisor of the Overview rates is len(...)
row_total(col) == Len(col)

\* lines 83-87: count / total_trainees * 100 if total_trainees > 0 else 0
overall_rate(count, total) ==
    IF total > 0 THEN Frac(count * 100, total) ELSE Frac(0, 1)

\* a row of gov_performance / program_performance after line 135
Performance(key, rate) == [key |-> key, success_rate |-> rate]

\* place r after the rows whose success rate is not smaller
RECURSIVE insert_rate_desc(_, _)
insert_rate_desc(sorted, r) ==
    IF sorted = <<>> THEN <<r>>
    ELSE IF Head(sorted).success_rate.num * r.success_rate.den
               >= r.success_rate.num * Head(sorted).success_rate.den
         THEN <<Head(sorted)>> \o insert_rate_desc(Tail(sorted), r)
         ELSE <<r>> \o sorted

\* sort_values('success_rate', ascending=False)
RECURSIVE sort_rate_desc(_)
sort_rate_desc(rows) ==
    IF rows = <<>> THEN <<>>
    ELSE insert_rate_desc(sort_rate_desc(SubSeq(rows, 1, Len(rows) - 1)),
                          rows[Len(rows)])

\* lines 125-136 and 153-164: the success rate of each group of column c,
\* (x['Attendance'] >= 60).sum() / len(x) * 100, best five first
performance(df, c) ==
    LET keys == keys_of(df.rows, c)
        rated == [j \in 1..Len(keys) |->
                    LET x == SelectSeq(df.rows, LAMBDA r : r[c] = keys[j])
                        att == [i \in 1..Len(x) |-> x[i].Attendance]
                    IN  Performance(keys[j],
                                    Frac(count_ge60(att) * 100, row_total(att)))]
    IN  head(sort_rate_desc(rated), 5)

\* lines 78-237: the Overview page (metrics and charts; no table is changed)
Overview ==
    /\ pc = "Overview"
    /\ "Attendance" \in trainee_df.columns
    /\ LET att == df_get(trainee_df, "Attendance").cells
       IN  /\ success_rate' = overall_rate(count_ge60(att), row_total(att))
           /\ failure_rate' = overall_rate(count_lt60(att), row_total(att))
    /\ gov_performance' = performance(trainee_df, "gov")
    /\ program_performance' = performance(trainee_df, "prog")
    /\ shown' = shown \cup {"view_overview"}
    /\ pc' = "done"
    /\ UNCHANGED <<normVars, examVars, envVars, dashVars, cmpVars, reportVars,
                   filterVars, coreVars>>

\* line 83: trainee_df['Attendance'] of a sheet without the column raises
\* KeyError, which ends the run with the exception on the page
OverviewKeyError ==
    /\ pc = "Overview"
    /\ "Attendance" \notin trainee_df.columns
    /\ shown' = shown \cup {"exception"}
    /\ pc' = "crashed"
    /\ UNCHANGED <<normVars, examVars, envVars, dashVars, cmpVars, reportVars,
                   viewVars>>

\* lines 125-133 and 153-161 with no group at all (no row, or no row with a
\* key): groupby.apply has no result to infer a shape from and may return a
\* frame with the sheet's columns, and the two-name column assignment then
\* raises ValueError (the Overview action is the run in which it does not)
OverviewNoGroups ==
    /\ pc = "Overview"
    /\ "Attendance" \in trainee_df.columns
    /\ keys_of(trainee_df.rows, "gov") = <<>> \/ keys_of(trainee_df.rows, "prog") = <<>>
    /\ LET att == df_get(trainee_df, "Attendance").cells
       IN  /\ success_rate' = overall_rate(count_ge60(att), row_total(att))
           /\ failure_rate' = overall_rate(count_lt60(att), row_total(att))
    /\ shown' = shown \cup {"exception"}
    /\ pc' = "crashed"
    /\ UNCHANGED <<normVars, examVars, envVars, dashVars, cmpVars, reportVars,
                   gov_performance, program_performance, filterVars, coreVars>>

\* lines 238-326: the Training Plan page (metrics, filters and charts)
TrainingPlan ==
    /\ pc = "Training Plan"
    /\ shown' = shown \cup {"view_training_plan"}
    /\ pc' = "done"
    /\ UNCHANGED <<normVars, examVars, envVars, dashVars, cmpVars, reportVars, viewVars>>

\* df[c].unique(): the values of the column, the missing value among them
unique(df, c) == {df.rows[i][c] : i \in 1..Len(df.rows)}

\* the slider values that are tried
SliderValues == {0, 60}

\* lines 372-376: the rows whose program and governorate are selected and
\* whose attendance is at least the slider value (isin finds a missing value
\* only when it is among the selected ones; a comparison with NaN is False)
filter_trainee(df, courses, govs, min_attendance) ==
    Table(df.columns,
          SelectSeq(df.rows,
                    LAMBDA r : /\ r.prog \in courses
                               /\ r.gov \in govs
                               /\ IsNum(r.Attendance)
                               /\ r.Attendance.v >= min_attendance * 1000))

\* lines 327-430: the Trainee Details page up to the exam block: the metrics,
\* the three filters (the course options are unique(), the governorate
\* options dropna().unique()), the filtered rows and their charts
TraineeDetails ==
    /\ pc = "Trainee Details"
    /\ "Attendance" \in trainee_df.columns
    /\ \E courses \in SUBSET unique(trainee_df, "prog"),
          govs \in SUBSET (unique(trainee_df, "gov") \ {NoKey}),
          slider \in SliderValues :
          /\ selected_course' = courses
          /\ selected_gov_trainee' = govs
          /\ attendance_filter' = slider
          /\ filtered_trainee' = filter_trainee(trainee_df, courses, govs, slider)
    /\ shown' = shown \cup {"view_trainee_details"}
    /\ pc' = "exam_try"
    /\ UNCHANGED <<normVars, examVars, envVars, dashVars, cmpVars, reportVars,
                   overviewVars, coreVars>>

\* line 335: trainee_df['Attendance'] of a sheet without the column raises
\* KeyError, which ends the run with the exception on the page
TraineeDetailsKeyError ==
    /\ pc = "Trainee Details"
    /\ "Attendance" \notin trainee_df.columns
    /\ shown' = shown \cup {"exception"}
    /\ pc' = "crashed"
    /\ UNCHANGED <<normVars, examVars, envVars, dashVars, cmpVars, reportVars,
                   viewVars>>

\* line 570: len(trainee_df) / plan_df[target].sum() * 100 in floats
dash_enrollment_rate(plan, trainee) ==
    LET total == nansum([i \in 1..Len(plan.rows) |-> plan.rows[i].target])
        n == Len(trainee.rows)
    IN  IF total = 0 THEN (IF n = 0 THEN FracNaN ELSE FracInf)
        ELSE Frac(n * 100000, total)

\* lines 556-721: the Comparative Analysis page
ComparativeAnalysis ==
    /\ pc = "Comparative Analysis"
    /\ enrollment_rate' = dash_enrollment_rate(plan_df, trainee_df)
    /\ comparison' = dash_comparison(plan_df, trainee_df)
    /\ gov_comparison' = dash_gov_comparison(plan_df, trainee_df)
    /\ courses_gov_comp' = dash_courses_gov_comp(plan_df, trainee_df)
    /\ shown' = shown \cup {"view_comparative_analysis"}
    /\ pc' = "done"
    /\ UNCHANGED <<normVars, examVars, envVars, dashVars, reportVars, viewVars>>

\* line 570 with a 'plan' sheet without rows: the sum of an empty column
\* read as object dtype is the Python int 0, and the division raises
\* ZeroDivisionError, which ends the run with the exception (whether the
\* empty column is read as object dtype depends on the reader)
ComparativeZeroDivision ==
    /\ pc = "Comparative Analysis"
    /\ Len(plan_df.rows) = 0
    /\ shown' = shown \cup {"exception"}
    /\ pc' = "crashed"
    /\ UNCHANGED <<normVars, examVars, envVars, dashVars, cmpVars, reportVars, viewVars>>

Init == InitDash \/ InitReport

Next ==
    \/ DetermineFile
    \/ NoData
    \/ LoadData
    \/ LoadError
    \/ SelectView
    \/ Overview
    \/ OverviewKeyError
    \/ OverviewNoGroups
    \/ TrainingPlan
    \/ TraineeDetails
    \/ TraineeDetailsKeyError
    \/ ExamNormalize
    \/ ExamSelect
    \/ ExamRates
    \/ ExamColumnsRaise
    \/ ExamColumnsPass
    \/ ExamChart
    \/ ExamExcept
    \/ DataTable
    \/ ComparativeAnalysis
    \/ ComparativeZeroDivision
    \/ ReportLoad
    \/ ReportLoadError
    \/ BuildReport
    \/ BuildPdf

Spec == Init /\ [][Next]_vars

\* the reconciliations that carry a fulfillment rate, and all of them
RatedRecons == {html.comparison, pdf.comparison, comparison}
AllRecons == RatedRecons \cup {gov_comparison, courses_gov_comp}
AggKeys(agg) == {agg[i].key : i \in 1..Len(agg)}

\* C1: in every reconciled comparison table a key whose planned metric is 0
\* has fulfillment rate exactly 0 (not inf, not NaN).
C1_ZeroDenominatorRateIsZero ==
    \A R \in RatedRecons : \A i \in 1..Len(R.rows) :
        R.rows[i].planned = Num(0) => R.rows[i].fulfillment_rate = Num(0)

\* t tenths is a / (p * 17.75) * 100 rounded to one decimal place
IsRoundedRate(t, a, p) ==
    LET d == t * p * AvgClassSizeX100 - a * 100000
    IN  2 * (IF d >= 0 THEN d ELSE 0 - d) <= p * AvgClassSizeX100

\* C2: every row of the report's tables with p planned courses and a
\* registrations has rate a / (p * 17.75) * 100 rounded to one decimal place,
\* and rate 0 when p = 0 (A: 4 courses, 50 registrations: 70.4; B: no
\* course, 10 registrations: 0).
C2_ReportRate ==
    \A R \in {html.comparison, pdf.comparison} : \A i \in 1..Len(R.rows) :
        LET row == R.rows[i]
        IN  /\ IsNum(row.fulfillment_rate)
            /\ IF whole(row.planned) = 0 THEN row.fulfillment_rate = Num(0)
               ELSE IsRoundedRate(row.fulfillment_rate.v \div 100,
                                  whole(row.actual), whole(row.planned))

\* the non-missing values of column c of a sheet
SheetKeys(df, c) == {df.rows[i][c] : i \in 1..Len(df.rows)} \ {NoKey}
\* the join R holds each key of either aggregate exactly once and no other
\* key, and the aggregates hold the keys of the two sheets
EveryKeyOnce(R, planKeys, actualKeys) ==
    /\ AggKeys(R.plan_side) = planKeys
    /\ AggKeys(R.actual_side) = actualKeys
    /\ \A key \in planKeys \cup actualKeys :
          Cardinality({i \in 1..Len(R.joined) : R.joined[i].key = key}) = 1
    /\ \A i \in 1..Len(R.joined) : R.joined[i].key \in planKeys \cup actualKeys

\* C3: the full outer join holds every key of either side exactly once, for
\* every pair of sheets, also when rows share a program name.
C3_EveryKeyExactlyOnce ==
    /\ html.written =>
          EveryKeyOnce(html.comparison, SheetKeys(programs_df, "prog"),
                       SheetKeys(registration_df, "prog"))
    /\ pdf.written =>
          EveryKeyOnce(pdf.comparison, SheetKeys(programs_df, "prog"),
                       SheetKeys(registration_df, "prog"))
    /\ (pc = "done" /\ sheet_view = "Comparative Analysis") =>
          /\ EveryKeyOnce(comparison, SheetKeys(plan_df, "prog"),
                          SheetKeys(trainee_df, "prog"))
          /\ EveryKeyOnce(gov_comparison, SheetKeys(plan_df, "gov"),
                          SheetKeys(trainee_df, "gov"))
          /\ EveryKeyOnce(courses_gov_comp, SheetKeys(plan_df, "gov"),
                          SheetKeys(trainee_df, "gov"))

\* two plan rows of one program, two trainee rows of another: two keys
C3_Witness ==
    /\ pc = "done" /\ sheet_view = "Comparative Analysis"
    /\ Len(plan_df.rows) = 2 /\ plan_df.rows[1].prog = 1 /\ plan_df.rows[2].prog = 1
    /\ Len(trainee_df.rows) = 2
    /\ trainee_df.rows[1].prog = 2 /\ trainee_df.rows[2].prog = 2
    /\ Len(comparison.joined) = 2

\* the value an aggregate holds for a key
AggValue(agg, key) == agg[CHOOSE i \in 1..Len(agg) : agg[i].key = key].val
ZeroFilled(R, rows) ==
    \A i \in 1..Len(rows) :
        /\ rows[i].planned =
              IF rows[i].key \in AggKeys(R.plan_side)
              THEN AggValue(R.plan_side, rows[i].key) ELSE Num(0)
        /\ rows[i].actual =
              IF rows[i].key \in AggKeys(R.actual_side)
              THEN AggValue(R.actual_side, rows[i].key) ELSE Num(0)

\* C4: a key of one side only has 0 for the metric of the other side, and a
\* metric that an aggregate holds is in the reconciled table unchanged.
C4_ZeroFillKeepsMetrics ==
    \A R \in AllRecons : ZeroFilled(R, R.joined) /\ ZeroFilled(R, R.rows)

\* a report with a program that is only planned and one that is only
\* registered, in the HTML report and in the PDF
C4_Witness ==
    /\ html.written
    /\ \E i, j \in 1..Len(html.comparison.rows) :
          /\ html.comparison.rows[i].planned = Num(0)
          /\ html.comparison.rows[i].actual = Num(2000)
          /\ html.comparison.rows[j].planned = Num(1000)
          /\ html.comparison.rows[j].actual = Num(0)
    /\ pdf.written
    /\ \E i \in 1..Len(pdf.comparison.rows) :
          /\ pdf.comparison.rows[i].planned = Num(1000)
          /\ pdf.comparison.rows[i].actual = Num(0)

\* the Overview page has been computed in this run
OverviewDone == pc = "done" /\ sheet_view = "Overview"
AttendanceOf(rows) == [i \in 1..Len(rows) |-> rows[i].Attendance]
\* rate is count / total * 100
RateOf(rate, count, total) == rate.num * total = count * 100 * rate.den
\* the rows of trainee_df whose column c holds key
RowsWith(c, key) == SelectSeq(trainee_df.rows, LAMBDA r : r[c] = key)

\* C11: every success/failure rate of the Overview page is the number of
\* passing (failing) rows divided by the number of rows with a non-missing
\* Attendance value, times 100.
C11_MissingExcludedFromDenominator ==
    OverviewDone =>
        LET att == AttendanceOf(trainee_df.rows)
        IN  /\ count_notna(att) > 0 =>
                  /\ RateOf(success_rate, count_ge60(att), count_notna(att))
                  /\ RateOf(failure_rate, count_lt60(att), count_notna(att))
            /\ \A perf \in {<<gov_performance, "gov">>, <<program_performance, "prog">>} :
                  \A i \in 1..Len(perf[1]) :
                      LET x == AttendanceOf(RowsWith(perf[2], perf[1][i].key))
                      IN  count_notna(x) > 0 =>
                              RateOf(perf[1][i].success_rate, count_ge60(x),
                                     count_notna(x))

\* a rate that is the number 0
IsZeroRate(rate) == rate.k = "num" /\ rate.num = 0
\* the Comparative Analysis page has got past its enrollment rate, or has
\* ended in an exception
CompareDone == pc = "done" /\ sheet_view = "Comparative Analysis"
CompareCrashed == pc = "crashed" /\ sheet_view = "Comparative Analysis"
TargetSum == nansum([i \in 1..Len(plan_df.rows) |-> plan_df.rows[i].target])

\* C12: an overall rate whose denominator is zero is exactly 0, without an
\* exception: the enrollment rate of build_report and build_pdf with no
\* planned course, the enrollment rate of the Comparative Analysis page with
\* a target sum of 0, the Overview success and failure rates with no trainee.
C12_ZeroDenominatorOverallRateIsZero ==
    /\ (html.written /\ html.total_courses = 0) => IsZeroRate(html.enrollment_rate)
    /\ (pdf.written /\ pdf.total_courses = 0) => IsZeroRate(pdf.enrollment_rate)
    /\ (OverviewDone /\ Len(trainee_df.rows) = 0) =>
          IsZeroRate(success_rate) /\ IsZeroRate(failure_rate)
    /\ TargetSum = 0 => ~CompareCrashed
    /\ (CompareDone /\ TargetSum = 0) => IsZeroRate(enrollment_rate)

\* the states a run ends in with no data: the dashboard's warning, the
\* report generator's traceback of load_data
LoadErrorShown == "error_loading_data" \in shown \/ "traceback" \in shown
ViewShown ==
    shown \cap {"view_overview", "view_training_plan", "view_trainee_details",
                "view_comparative_analysis", "Report written", "PDF written"} # {}

\* C14: with no data source (dashboard: no uploaded and no bundled file;
\* report generator: no file at the path) the run ends in a 'no data' state
\* of its own: nothing is loaded, the load-error state is not entered and no
\* view or report is produced; and the load-error state is entered only with
\* a data source that is there.
C14_NoDataIsDistinct ==
    /\ file_to_use = "None" =>
          /\ pc \in {"load", "stopped"}
          /\ ~LoadErrorShown /\ ~ViewShown
          /\ "Data loaded successfully" \notin shown
          /\ pc = "stopped" => "warning_no_data" \in shown
    /\ (pc \in {"main", "crashed", "build_report", "build_pdf", "report_done"}
            /\ ~workbook.exists) =>
          /\ ~LoadErrorShown /\ ~ViewShown
          /\ programs_df = EmptyTable
    /\ LoadErrorShown => workbook.exists /\ file_to_use # "None"

RowKeys(rows) == {rows[i].key : i \in 1..Len(rows)}
\* rows are in descending order of the planned metric
PlannedDescending(rows) ==
    \A i, j \in 1..Len(rows) : i < j => rows[i].planned.v >= rows[j].planned.v
\* the rows shown are at most 15 and none of them has a smaller planned
\* metric than a row of the join that is left out
TopFifteen(R) ==
    /\ Len(R.rows) <= 15
    /\ \A i \in 1..Len(R.rows) : \A j \in 1..Len(R.joined) :
          R.joined[j].key \notin RowKeys(R.rows) =>
              R.rows[i].planned.v >= R.joined[j].planned.v
\* the table R shows has a row for every key of the join
FullTable(R) == RowKeys(R.rows) = RowKeys(R.joined)

\* C15 (ordering and truncation): every reconciled table is in descending
\* order of the planned metric, and the truncated tables of build_pdf and of
\* the dashboard show at most 15 rows, none smaller than an omitted one.
C15_OrderedAndTruncated ==
    /\ \A R \in AllRecons : PlannedDescending(R.rows)
    /\ TopFifteen(pdf.comparison) /\ TopFifteen(comparison)

\* C15: the above, and each producer gives the full reconciled table, one row
\* for every key of either side: build_report for the report generator, the
\* Comparative Analysis page for the dashboard.
C15_FullTableObtainable ==
    /\ C15_OrderedAndTruncated
    /\ html.written => FullTable(html.comparison)
    /\ CompareDone => FullTable(comparison)

\* the report generator has loaded its sheets; the dashboard has
ReportLoaded == pc \in {"build_report", "build_pdf", "report_done"}
DashLoaded == "Data loaded successfully" \in shown
DerivedColumns == {"init_numeric", "final_exam_numeric"}
\* table df is the sheet with nothing but derived columns added
OnlyDerivedAdded(df, sheet) ==
    /\ sheet.columns \subseteq df.columns
    /\ df.columns \ sheet.columns \subseteq DerivedColumns
    /\ Len(df.rows) = Len(sheet.rows)
    /\ \A i \in 1..Len(df.rows) :
          [df.rows[i] EXCEPT !.init_numeric = NaN, !.final_exam_numeric = NaN]
              = sheet.rows[i]

\* C16: the loaded tables are snapshots: the report generator's three tables
\* and the dashboard's plan table stay as they were read, and the trainee
\* table changes only by the two derived normalized-score columns.
C16_TablesAreSnapshots ==
    /\ ReportLoaded =>
          /\ programs_df = workbook.sheets.programs
          /\ trainees_df = workbook.sheets.trainees
          /\ registration_df = workbook.sheets.registration
    /\ DashLoaded =>
          /\ plan_df = workbook.sheets.plan
          /\ OnlyDerivedAdded(trainee_df, workbook.sheets.trainee)

\* the Trainee Details page has been rendered on a sheet with a missing and
\* a filled initial-exam cell, and both derived columns have been added
C16_Witness ==
    /\ pc = "done" /\ sheet_view = "Trainee Details"
    /\ DerivedColumns \subseteq trainee_df.columns
    /\ Len(trainee_df.rows) = 2
    /\ trainee_df.rows[1].init_numeric = NaN
    /\ trainee_df.rows[2].init_numeric = Num(65000)

DashViewMarks == {"view_overview", "view_training_plan", "view_trainee_details",
                  "view_comparative_analysis"}
\* a view has been chosen or rendered in this run
ViewEntered == sheet_view # "unset" \/ pc \in Views \/ shown \cap DashViewMarks # {}
LoadErrorReported == "error_loading_data" \in shown
NoDataReported == "warning_no_data" \in shown
Count(b) == IF b THEN 1 ELSE 0

\* C18: in a dashboard run a view is rendered only after load_data has
\* returned; when load_data raises, the load error is reported and the run
\* stops without a view; 'loaded', 'load error' and 'no data' exclude one
\* another; an uploaded file is used in preference to the bundled one.
C18_ViewOnlyAfterLoad ==
    /\ ViewEntered => DashLoaded
    /\ DashLoaded => workbook.readable /\ file_to_use \in {"uploaded", "default"}
    /\ LoadErrorReported => pc = "stopped" /\ ~ViewEntered /\ ~workbook.readable
    /\ (pc = "stopped" /\ file_to_use \in {"uploaded", "default"}) => LoadErrorReported
    /\ Count(DashLoaded) + Count(LoadErrorReported) + Count(NoDataReported) <= 1
    /\ (uploaded_file /\ file_to_use # "unset") => file_to_use = "uploaded"

\* a run with an uploaded and a bundled file that has rendered the Overview
C18_Witness ==
    /\ pc = "done" /\ "view_overview" \in shown
    /\ uploaded_file /\ default_exists
    /\ file_to_use = "uploaded" /\ DashLoaded

\* a run whose file could not be read has stopped with the load error
C18_WitnessLoadError ==
    /\ pc = "stopped" /\ LoadErrorReported /\ ~uploaded_file /\ default_exists

Filtered == sheet_view = "Trainee Details" /\ "view_trainee_details" \in shown
\* every offered course and governorate option is selected, the slider is 0
EverythingSelected ==
    /\ selected_course = unique(trainee_df, "prog")
    /\ selected_gov_trainee = unique(trainee_df, "gov") \ {NoKey}
    /\ attendance_filter = 0
\* the loaded rows, without the derived columns the exam block adds
LoadedRows == workbook.sheets.trainee.rows

\* C20 (selection): the filtered rows are exactly the loaded rows, in
\* order, whose course and governorate are selected and whose attendance is
\* at least the slider value.
C20_FilterSelectsRows ==
    Filtered =>
        filtered_trainee.rows =
            SelectSeq(LoadedRows,
                      LAMBDA r : /\ r.prog \in selected_course
                                 /\ r.gov \in selected_gov_trainee
                                 /\ IsNum(r.Attendance)
                                 /\ r.Attendance.v >= attendance_filter * 1000)

\* C20: the above, and with every offered option selected and a minimum
\* attendance of 0 the filtered rows are all loaded rows, those without a
\* governorate or an attendance value included.
C20_NoFilterKeepsEveryRow ==
    /\ C20_FilterSelectsRows
    /\ (Filtered /\ EverythingSelected) => filtered_trainee.rows = LoadedRows

\* ------------------------------------------------------------------ normalizer
InitNorm ==
    /\ pc = "norm_call"
    /\ series \in {Column(c) : c \in SeqsUpTo(Cells, MaxLen)} \cup {None}
    /\ nums = <<>>
    /\ nums_again = <<>>
    /\ trainee_df = EmptyTable
    /\ ExamIdle
    /\ DashIdle
    /\ ReportIdle
    /\ ViewIdle

Normalize ==
    /\ pc = "norm_call"
    /\ nums' = to_number_percent_aware(series)
    /\ pc' = "norm_ret"
    /\ UNCHANGED <<series, nums_again, examVars, shown, envVars, dashVars, cmpVars,
                   reportVars, viewVars>>

NextNorm == Normalize

SpecNorm == InitNorm /\ [][NextNorm]_vars

\* Cell texts for a second pass: half a percent as a fraction, the value 1,
\* a large number, a missing cell.
IdemCells == {<<"0", ",", "0", "0", "5">>, <<"1">>, <<"1", "5", "0">>, Missing}

InitIdem ==
    /\ pc = "norm_call"
    /\ series \in {Column(c) : c \in SeqsUpTo(IdemCells, MaxLen)}
    /\ nums = <<>>
    /\ nums_again = <<>>
    /\ trainee_df = EmptyTable
    /\ ExamIdle
    /\ DashIdle
    /\ ReportIdle
    /\ ViewIdle

\* _to_number_percent_aware is applied to the column it has returned
NormalizeAgain ==
    /\ pc = "norm_ret"
    /\ nums_again' = to_number_percent_aware(float_column(nums))
    /\ pc' = "norm_twice"
    /\ UNCHANGED <<series, nums, examVars, shown, envVars, dashVars, cmpVars,
                   reportVars, viewVars>>

NextIdem ==
    \/ Normalize
    \/ NormalizeAgain

SpecIdem == InitIdem /\ [][NextIdem]_vars

\* every value of the input column that parses lies in [0,100]
OnPercentScale ==
    \A i \in 1..Len(series.cells) :
        LET x == ParseCell(series.cells[i])
        IN  IsNum(x) => 0 <= x.v /\ x.v <= 100000

\* C21: the normalizer gives its own output back unchanged, and gives a
\* column that is on the 0-100 scale already back with its parsed values,
\* also when most values are 0 or 1.
C21_Idempotent ==
    /\ pc = "norm_twice" => nums_again = nums
    /\ (pc \in {"norm_ret", "norm_twice"} /\ OnPercentScale) =>
          \A i \in 1..Len(series.cells) : nums[i] = ParseCell(series.cells[i])

\* positions of the input column whose cell parses, and those of them whose
\* parsed value lies in [0,1]
ParseableIdx == {i \in 1..Len(series.cells) : notna(ParseCell(series.cells[i]))}
UnitIdx == {i \in ParseableIdx : between01(ParseCell(series.cells[i]))}
AllScaled == \A i \in ParseableIdx : nums[i] = Times100(ParseCell(series.cells[i]))
NoneScaled == \A i \in ParseableIdx : nums[i] = ParseCell(series.cells[i])

\* C5: every entry of the normalizer's output is missing or a number in
\* [0,100], whatever the input column holds.
C5_OutputInRange ==
    pc = "norm_ret" =>
        \A i \in 1..Len(nums) :
            nums[i] = NaN \/ (IsNum(nums[i]) /\ 0 <= nums[i].v /\ nums[i].v <= 100000)

\* C6 (as claimed): a column with at least 80% of its parseable values in
\* [0,1] is scaled by 100 as a whole, a column with fewer is left unscaled.
C6_ScaledFromEightyPercent ==
    (pc = "norm_ret" /\ series.present) =>
        IF 100 * Cardinality(UnitIdx) >= 80 * Cardinality(ParseableIdx)
        THEN AllScaled ELSE NoneScaled

\* C6 (amended): a column with more than 80% of its parseable values in
\* [0,1] is scaled by 100 as a whole; a column with 80% or fewer is left
\* unscaled as a whole; the output has one entry per input entry.
C6_ScaledAboveEightyPercent ==
    (pc = "norm_ret" /\ series.present) =>
        /\ Len(nums) = Len(series.cells)
        /\ IF 100 * Cardinality(UnitIdx) > 80 * Cardinality(ParseableIdx)
           THEN AllScaled ELSE NoneScaled

\* a column with exactly 80% of its parseable values in [0,1] was normalized
C6_Witness ==
    /\ pc = "norm_ret" /\ series.present
    /\ Cardinality(ParseableIdx) = 5 /\ Cardinality(UnitIdx) = 4
    /\ NoneScaled

\* texts of the input alphabet that are not numbers, and the missing cell
BadCells == {<<"n", "/", "a">>, Missing}

\* C7: a missing or unparseable entry stays missing at its position (never
\* 0), an absent or empty column gives an empty column, and a column in
\* which nothing parses gives an all-missing column of the same length.
C7_BadValuesStayMissing ==
    pc = "norm_ret" =>
        /\ ~series.present => nums = <<>>
        /\ series.present =>
            /\ Len(nums) = Len(series.cells)
            /\ \A i \in 1..Len(series.cells) :
                   series.cells[i] \in BadCells => nums[i] = NaN
            /\ (\A i \in 1..Len(series.cells) : series.cells[i] \in BadCells)
                   => nums = [i \in 1..Len(series.cells) |-> NaN]

\* a scaled column that holds both a fraction and two bad entries
C7_Witness ==
    /\ pc = "norm_ret" /\ series.present
    /\ \E i, j, l \in 1..Len(nums) :
          /\ series.cells[i] = Missing /\ nums[i] = NaN
          /\ series.cells[j] = <<"n", "/", "a">> /\ nums[j] = NaN
          /\ nums[l] = Num(50000)

====
